---------------------------- MODULE Spec2Model ----------------------------
(***************************************************************************)
(* Model of the dudebro-hosting control plane (src/app.py): the            *)
(* authorization gate, the quota gate on create, the status broadcast      *)
(* bridge, the process-per-call RCON executor and the restart worker pool. *)
(***************************************************************************)
EXTENDS Integers, Sequences, FiniteSets, Bags, TLC

\* ------------------------------------------------------------------ bounds

\* Largest container_limit a tenant row is given.
MaxLimit == 2
\* Home requests that may sit between the quota check and create_container.
MaxPending == 2
\* Events the runtime emits on its global stream.
MaxEvents == 2
\* Requests of /monitor, each starting one background task.
MaxMonitors == 2
\* Socket connections one user holds at a time.
MaxSessions == 1
\* Calls of send_rcon_command.
MaxCalls == 2
\* Tasks submitted to the executor.
MaxTasks == 4
\* Requests of edit that may sit between write_server_properties and
\* executor.submit.
MaxEditing == 1

\* -------------------------------------------------------------- identities

\* Users.id of the registered tenants; current_user of a request is one of
\* them or the anonymous user.
Users == {1, 2}
\* current_user when nobody is logged in (is_authenticated is False).
Anonymous == 0
Requesters == Users \cup {Anonymous}

\* Values of the <subdomain> URL segment. Flask's string converter never
\* yields the empty string, so NoSubdomain is not among them.
Subdomains == {"foo", "bar", "baz"}
\* kwargs.get("subdomain", False) when the route has no such segment.
NoSubdomain == ""

Methods == {"GET", "POST"}

\* States the container runtime reports for a unit; "absent" when
\* deploy.get_user_containers finds nothing for the subdomain.
RuntimeStates == {"absent", "created", "running", "restarting", "exited", "dead"}

VARIABLES
    Containers,       \* rows of the Containers table: [subdomain, user_id]
    container_limit,  \* Users.container_limit, per user id
    rt,               \* runtime state of the unit of each subdomain
    pending,          \* home requests past the quota check, before create_container
    gate,             \* what decorated_function did with the last guarded request
    home_gate,        \* what home did with the last create form
    reply,            \* what the last guarded request was answered with
    events,           \* deploy.client.events(): what the runtime emitted so far
    monitors,         \* the monitor_events background tasks, in the order started
    sessions,         \* connected sockets per user id (members of room uid)
    closed,           \* users whose last socket closed and who did not connect again
    rcon_calls,       \* the calls of send_rcon_command, in the order started
    rqueue,           \* the multiprocessing queues, by queue id
    tasks,            \* the async_restart tasks submitted to the executor, in order
    work_queue,       \* the executor's queue of task ids not yet taken
    workers,          \* what each worker thread of the executor is running
    props,            \* server.properties of each instance
    editing,          \* edit requests past write_server_properties, before executor.submit
    task_log          \* the records async_restart has handed to the logger, a bag

registry == <<Containers, container_limit, rt, pending, gate, home_gate, reply>>
bridge == <<events, monitors, sessions, closed>>
rcon == <<rcon_calls, rqueue>>
pool == <<tasks, work_queue, workers, props, editing, task_log>>
vars == <<registry, bridge, rcon, pool>>

\* ------------------------------------------------------------ the registry

\* Users.query.filter_by(id=id).first().containers
containers_of(id) == {c \in Containers : c.user_id = id}

\* Whether any tenant has a row for the subdomain.
Exists(subdomain) == \E c \in Containers : c.subdomain = subdomain

\* Mutant of user_can_access: answers from the whole table, not the user's rows.
user_can_access_any(id, subdomain) ==
    \E c \in Containers : subdomain = c.subdomain

user_can_access(id, subdomain) ==
    \E c \in containers_of(id) : subdomain = c.subdomain

\* Mutant of reached_creation_limit: strict comparison.
reached_creation_limit_strict(id) ==
    Cardinality(containers_of(id)) > container_limit[id]

reached_creation_limit(id) ==
    Cardinality(containers_of(id)) >= container_limit[id]

\* --------------------------------------------------- the authorization gate

CannotAccess == "Sorry, you cannot access that page"

GateResult(outcome, flash, calls) ==
    [outcome |-> outcome, flash |-> flash, calls |-> calls]

\* Mutant of authorized: the login check is missing.
authorized_no_login(user, subdomain) ==
    IF subdomain = NoSubdomain
    THEN GateResult("handler", "", <<>>)
    ELSE IF user = Anonymous \/ ~user_can_access(user, subdomain)
         THEN GateResult("redirect_home", CannotAccess, <<"user_can_access">>)
         ELSE GateResult("handler", "", <<"user_can_access", "f">>)

\* decorated_function: the outcome, the flashed message and the calls made,
\* in order ("f" is the wrapped view function).
authorized(user, subdomain) ==
    IF user = Anonymous
    THEN GateResult("redirect_login", "", <<"is_authenticated">>)
    ELSE IF subdomain = NoSubdomain
         THEN GateResult("handler", "", <<"is_authenticated", "f">>)
         ELSE IF ~user_can_access(user, subdomain)
              THEN GateResult("redirect_home", CannotAccess,
                              <<"is_authenticated", "user_can_access">>)
              ELSE GateResult("handler", "", <<"is_authenticated", "user_can_access", "f">>)

\* The record kept of a guarded request: whether the requester was logged
\* in, whether the subdomain was theirs or anybody's at that moment, and what
\* the gate did.
GateRecord(route, user, subdomain) ==
    [route |-> route,
     authenticated |-> user # Anonymous,
     owned |-> \E c \in Containers : c.subdomain = subdomain /\ c.user_id = user,
     exists |-> Exists(subdomain),
     result |-> authorized(user, subdomain)]

Invoked(route, user, subdomain) == authorized(user, subdomain).outcome = "handler"

NoGate == [route |-> "none"]
NoHomeGate == [outcome |-> "none"]

\* ------------------------------------------------------------- the replies

\* What a guarded request is answered with: the route, the HTTP status and
\* the body.
Reply(route, code, body) == [route |-> route, code |-> code, body |-> body]
NoReply == [route |-> "none"]

\* A body that is a page, a file, a plain text or the name of an exception.
Text(t) == [text |-> t]

\* jsonify(status) with status = True, in shutdown and start.
JsonTrue == [json |-> TRUE]

\* return "Unauthorized", 401: the answer of get_status, restart, shutdown
\* and start to a method other than GET.
Unauthorized(route) == Reply(route, 401, Text("Unauthorized"))

\* An exception that leaves the view function: Flask answers 500.
Raised(route, exception) == Reply(route, 500, Text(exception))

\* The answer of decorated_function when it does not call the view function:
\* the redirect to login or to home.
GateReply(route, user, subdomain) ==
    Reply(route, 302, Text(authorized(user, subdomain).outcome))

\* A reply together with the state the runtime had for the unit of the
\* subdomain when the view function ran.
Handled(route, code, body, subdomain) ==
    [route |-> route, code |-> code, body |-> body, unit |-> rt[subdomain]]

\* jsonify({"status": "restarting", ...}), the answer of restart.
Restarting == [status |-> "restarting", show |-> "Restarting", color |-> "bg-orange-500"]


\* ------------------------------------------------------- the initial states

\* The registries an earlier run can have left in the database: every
\* subdomain has at most one row and no tenant is over its limit.
Registries ==
    {R \in SUBSET [subdomain : Subdomains, user_id : Users] :
        /\ \A c, d \in R : c.subdomain = d.subdomain => c = d
        /\ \A u \in Users : Cardinality({c \in R : c.user_id = u}) <= MaxLimit}

\* ThreadPoolExecutor(max_workers=2)
max_workers == 2
\* A worker thread that waits for work.
Idle == 0

\* Keys of server.properties, the values the model gives them, and the
\* document a new instance starts with.
Keys == {"max-players", "x-unknown"}
Values == {"10", "20"}
DefaultProps == [k \in Keys |-> "20"]

\* The state outside the registry when the process starts: nothing emitted,
\* no task started, nobody connected, no call made, the workers idle.
InitRest ==
    /\ events = <<>>
    /\ monitors = <<>>
    /\ sessions = [u \in Users |-> 0]
    /\ closed = {}
    /\ rcon_calls = <<>>
    /\ rqueue = <<>>
    /\ tasks = <<>>
    /\ work_queue = <<>>
    /\ workers = [w \in 1..max_workers |-> Idle]
    /\ props = [s \in Subdomains |-> DefaultProps]
    /\ editing = <<>>
    /\ task_log = EmptyBag

\* db.create_all() on an empty database: no container rows, no runtime units.
Init ==
    /\ Containers = {}
    /\ container_limit \in [Users -> 1..MaxLimit]
    /\ rt = [s \in Subdomains |-> "absent"]
    /\ pending = {}
    /\ gate = NoGate
    /\ home_gate = NoHomeGate
    /\ reply = NoReply
    /\ InitRest

\* db.create_all() on a database that holds rows already; the unit of every
\* registered subdomain is up.
InitGate ==
    /\ Containers \in Registries
    /\ container_limit = [u \in Users |-> MaxLimit]
    /\ rt = [s \in Subdomains |-> IF Exists(s) THEN "running" ELSE "absent"]
    /\ pending = {}
    /\ gate = NoGate
    /\ home_gate = NoHomeGate
    /\ reply = NoReply
    /\ InitRest

\* ------------------------------------------------------------------- home

\* home up to the quota check: login_required, validate_on_submit,
\* reached_creation_limit. A request that passes waits at the call of
\* deploy.create_container.
Home ==
    \E user \in Requesters, subdomain \in Subdomains, submit \in BOOLEAN :
        /\ Cardinality(pending) < MaxPending
        /\ IF user = Anonymous
           THEN /\ home_gate' = [outcome |-> "redirect_login", user |-> user]
                /\ UNCHANGED pending
           ELSE IF ~submit
           THEN /\ home_gate' = [outcome |-> "render", user |-> user]
                /\ UNCHANGED pending
           ELSE LET rec == [user |-> user,
                            count |-> Cardinality(containers_of(user)),
                            limit |-> container_limit[user]]
                IN IF reached_creation_limit(user)
                   THEN /\ home_gate' = [outcome |-> "limit_reached"] @@ rec
                        /\ UNCHANGED pending
                   ELSE /\ home_gate' = [outcome |-> "create_container"] @@ rec
                        /\ pending' = pending \cup {[user |-> user, subdomain |-> subdomain]}
        /\ UNCHANGED <<Containers, container_limit, rt, gate, reply, bridge, rcon, pool>>

\* deploy.create_container as the specification describes it: a subdomain
\* already in use raises, otherwise the unit is provisioned and registered.
create_container(user_id, subdomain) ==
    IF Exists(subdomain)
    THEN UNCHANGED <<Containers, rt>>
    ELSE /\ Containers' = Containers \cup {[subdomain |-> subdomain, user_id |-> user_id]}
         /\ rt' = [rt EXCEPT ![subdomain] = "running"]

\* home from the call of deploy.create_container to the redirect.
HomeCreate ==
    \E p \in pending :
        /\ create_container(p.user, p.subdomain)
        /\ pending' = pending \ {p}
        /\ UNCHANGED <<container_limit, gate, reply, home_gate, bridge, rcon, pool>>

\* ------------------------------------------------------ the guarded routes

\* get_container: the runtime unit of the subdomain, or False.
get_container(subdomain) == rt[subdomain] # "absent"

\* server: renders the page of the instance.
Server ==
    \E user \in Requesters, subdomain \in Subdomains :
        /\ gate' = GateRecord("server", user, subdomain)
        /\ reply' = IF Invoked("server", user, subdomain)
                    THEN Reply("server", 200, Text("server.html"))
                    ELSE GateReply("server", user, subdomain)
        /\ UNCHANGED <<Containers, container_limit, rt, pending, home_gate, bridge, rcon, pool>>

\* download: archives the world directory and sends it.
Download ==
    \E user \in Requesters, subdomain \in Subdomains :
        /\ gate' = GateRecord("download", user, subdomain)
        /\ reply' = IF Invoked("download", user, subdomain)
                    THEN Reply("download", 200, Text("world.zip"))
                    ELSE GateReply("download", user, subdomain)
        /\ UNCHANGED <<Containers, container_limit, rt, pending, home_gate, bridge, rcon, pool>>

\* Mutant of status_states: the entry of "restarting" is missing.
status_states_two ==
    <<[status |-> "running", show |-> "Running", color |-> "bg-green-500"],
      [status |-> "exited", show |-> "Stopped", color |-> "bg-red-500"]>>

\* The table local to get_container_status (named states there).
status_states ==
    <<[status |-> "running", show |-> "Running", color |-> "bg-green-500"],
      [status |-> "exited", show |-> "Stopped", color |-> "bg-red-500"],
      [status |-> "restarting", show |-> "Restarting", color |-> "bg-orange-500"]>>

\* The tuple get_status answers with when get_container_status is False.
Unknown == [status |-> "unknown", show |-> "Unknown", color |-> "bg-gray-500"]

\* deploy.get_status(container.id): the state the runtime reports.
deploy_get_status(subdomain) == rt[subdomain]

\* for state in states: if state['status'] == status: return state. The
\* first entry that matches as a one-element sequence, <<>> for False.
RECURSIVE FirstMatch(_, _)
FirstMatch(table, status) ==
    IF table = <<>>
    THEN <<>>
    ELSE IF Head(table).status = status
         THEN <<Head(table)>>
         ELSE FirstMatch(Tail(table), status)

\* get_container_status: False without a unit or for a state the table
\* does not hold.
get_container_status(subdomain) ==
    IF ~get_container(subdomain)
    THEN <<>>
    ELSE FirstMatch(status_states, deploy_get_status(subdomain))

\* get_status: on a GET answers the tuple of the unit's state, or the
\* unknown tuple; changes nothing.
GetStatus ==
    \E user \in Requesters, subdomain \in Subdomains, method \in Methods :
        /\ gate' = GateRecord("get_status", user, subdomain)
        /\ reply' = IF ~Invoked("get_status", user, subdomain)
                    THEN GateReply("get_status", user, subdomain)
                    ELSE IF method # "GET"
                    THEN Unauthorized("get_status")
                    ELSE LET status == get_container_status(subdomain)
                         IN IF status # <<>>
                            THEN Handled("get_status", 200, status[1], subdomain)
                            ELSE Handled("get_status", 200, Unknown, subdomain)
        /\ UNCHANGED <<Containers, container_limit, rt, pending, home_gate, bridge, rcon, pool>>

\* The states from which the runtime starts a unit.
Startable == {"created", "exited", "running"}

\* start: get_container(subdomain).start() on a GET and jsonify(True).
\* Without a unit get_container returns False and False.start() raises
\* AttributeError; the runtime refuses to start a unit that is restarting
\* or dead.
Start ==
    \E user \in Requesters, subdomain \in Subdomains, method \in Methods :
        /\ gate' = GateRecord("start", user, subdomain)
        /\ IF Invoked("start", user, subdomain) /\ method = "GET"
              /\ rt[subdomain] \in Startable
           THEN rt' = [rt EXCEPT ![subdomain] = "running"]
           ELSE UNCHANGED rt
        /\ reply' = IF ~Invoked("start", user, subdomain)
                    THEN GateReply("start", user, subdomain)
                    ELSE IF method # "GET"
                    THEN Unauthorized("start")
                    ELSE IF ~get_container(subdomain)
                    THEN Handled("start", 500, Text("AttributeError"), subdomain)
                    ELSE IF rt[subdomain] \in Startable
                    THEN Handled("start", 200, JsonTrue, subdomain)
                    ELSE Handled("start", 500, Text("APIError"), subdomain)
        /\ UNCHANGED <<Containers, container_limit, pending, home_gate, bridge, rcon, pool>>

\* shutdown: get_container(subdomain).kill() on a GET and jsonify(True).
\* Without a unit that is False.kill(), which raises AttributeError; the
\* runtime refuses to kill a unit that is not running.
Shutdown ==
    \E user \in Requesters, subdomain \in Subdomains, method \in Methods :
        /\ gate' = GateRecord("shutdown", user, subdomain)
        /\ IF Invoked("shutdown", user, subdomain) /\ method = "GET"
              /\ rt[subdomain] = "running"
           THEN rt' = [rt EXCEPT ![subdomain] = "exited"]
           ELSE UNCHANGED rt
        /\ reply' = IF ~Invoked("shutdown", user, subdomain)
                    THEN GateReply("shutdown", user, subdomain)
                    ELSE IF method # "GET"
                    THEN Unauthorized("shutdown")
                    ELSE IF ~get_container(subdomain)
                    THEN Handled("shutdown", 500, Text("AttributeError"), subdomain)
                    ELSE IF rt[subdomain] = "running"
                    THEN Handled("shutdown", 200, JsonTrue, subdomain)
                    ELSE Handled("shutdown", 500, Text("APIError"), subdomain)
        /\ UNCHANGED <<Containers, container_limit, pending, home_gate, bridge, rcon, pool>>

\* deploy.delete_container as the specification describes it: the unit is
\* torn down and its registry row removed.
delete_container(subdomain) ==
    /\ Containers' = {c \in Containers : c.subdomain # subdomain}
    /\ rt' = [rt EXCEPT ![subdomain] = "absent"]

\* delete: deploy.delete_container when the delete form validates.
Delete ==
    \E user \in Requesters, subdomain \in Subdomains, valid \in BOOLEAN :
        /\ gate' = GateRecord("delete", user, subdomain)
        /\ reply' = IF ~Invoked("delete", user, subdomain)
                    THEN GateReply("delete", user, subdomain)
                    ELSE IF valid
                    THEN Reply("delete", 302, Text("redirect_home"))
                    ELSE Reply("delete", 200, Text("edit.html"))
        /\ IF Invoked("delete", user, subdomain) /\ valid
           THEN delete_container(subdomain)
           ELSE UNCHANGED <<Containers, rt>>
        /\ UNCHANGED <<container_limit, pending, home_gate, bridge, rcon, pool>>

\* The game server of a running unit stops by itself.
RuntimeDie ==
    \E subdomain \in Subdomains :
        /\ rt[subdomain] = "running"
        /\ rt' = [rt EXCEPT ![subdomain] = "exited"]
        /\ UNCHANGED <<Containers, container_limit, pending, gate, reply, home_gate, bridge, rcon, pool>>

\* The routes behind authorized whose view functions act on the registry
\* and the runtime directly.
NextGate ==
    \/ Server
    \/ Download
    \/ GetStatus
    \/ Start
    \/ Shutdown
    \/ Delete
    \/ RuntimeDie

SpecGate == InitGate /\ [][NextGate]_vars

\* Creation through home, and deletion.
NextQuota ==
    \/ Home
    \/ HomeCreate
    \/ Delete

SpecQuota == Init /\ [][NextQuota]_vars

\* A running database whose units the runtime holds in any of its states,
\* or no longer holds.
InitLifecycle ==
    /\ Containers = {[subdomain |-> "foo", user_id |-> 1], [subdomain |-> "bar", user_id |-> 2]}
    /\ container_limit = [u \in Users |-> MaxLimit]
    /\ rt \in {r \in [Subdomains -> RuntimeStates] : \A s \in Subdomains : ~Exists(s) => r[s] = "absent"}
    /\ pending = {}
    /\ gate = NoGate
    /\ home_gate = NoHomeGate
    /\ reply = NoReply
    /\ InitRest

\* The status poll and the lifecycle routes that act in the request.
NextLifecycle ==
    \/ GetStatus
    \/ Start
    \/ Shutdown
    \/ RuntimeDie

SpecLifecycle == InitLifecycle /\ [][NextLifecycle]_vars

\* ------------------------------------------------ the status broadcast bridge

\* What the runtime's event stream yields: lifecycle events of units, other
\* events of units, and events that are not about units.
EventSet ==
    {[Type |-> "container", Action |-> "start"],
     [Type |-> "container", Action |-> "stop"],
     [Type |-> "container", Action |-> "die"],
     [Type |-> "container", Action |-> "restart"],
     [Type |-> "container", Action |-> "create"],
     [Type |-> "network", Action |-> "connect"]}

\* Mutant of states: the entry of "stop" is missing.
states_without_stop ==
    <<[status |-> "start", show |-> "Running", color |-> "bg-green-500"],
      [status |-> "die", show |-> "Stopped", color |-> "bg-red-500"],
      [status |-> "restart", show |-> "Running", color |-> "bg-green-500"]>>

\* Mutant of states: "stop" carries the tag of "die".
states_stop_red ==
    <<[status |-> "start", show |-> "Running", color |-> "bg-green-500"],
      [status |-> "die", show |-> "Stopped", color |-> "bg-red-500"],
      [status |-> "restart", show |-> "Running", color |-> "bg-green-500"],
      [status |-> "stop", show |-> "Stopping", color |-> "bg-red-500"]>>

\* The module-level table monitor_events looks the action up in.
states ==
    <<[status |-> "start", show |-> "Running", color |-> "bg-green-500"],
      [status |-> "die", show |-> "Stopped", color |-> "bg-red-500"],
      [status |-> "restart", show |-> "Running", color |-> "bg-green-500"],
      [status |-> "stop", show |-> "Stopping", color |-> "bg-orange-500"]>>

\* The actions monitor_events lets through.
MonitoredActions == {"start", "stop", "die", "restart"}

\* socketio.emit('container_status', state, room=uid)
Emit(state, uid) == [event |-> "container_status", data |-> state, room |-> uid]

\* for state in states: if state['status'] == action: emit. The messages
\* one pass over the table emits, in table order.
RECURSIVE EmitMatching(_, _, _)
EmitMatching(table, action, uid) ==
    IF table = <<>>
    THEN <<>>
    ELSE (IF Head(table).status = action THEN <<Emit(Head(table), uid)>> ELSE <<>>)
         \o EmitMatching(Tail(table), action, uid)

\* The body of the loop of monitor_events for one event.
OnEvent(event, uid) ==
    IF event.Type = "container"
    THEN IF event.Action \in MonitoredActions
         THEN EmitMatching(states, event.Action, uid)
         ELSE <<>>
    ELSE <<>>

\* A task that has not reached deploy.client.events() yet.
Unsubscribed == -1

\* handle_connect: the socket of a logged-in user joins the room of its id.
Connect ==
    \E user \in Users :
        /\ sessions[user] < MaxSessions
        /\ sessions' = [sessions EXCEPT ![user] = @ + 1]
        /\ closed' = closed \ {user}
        /\ UNCHANGED <<registry, rcon, pool, events, monitors>>

\* The socket closes; the application registers no handler for it.
Disconnect ==
    \E user \in Users :
        /\ sessions[user] > 0
        /\ sessions' = [sessions EXCEPT ![user] = @ - 1]
        /\ closed' = IF sessions[user] = 1 THEN closed \cup {user} ELSE closed
        /\ UNCHANGED <<registry, rcon, pool, events, monitors>>

\* monitor: start_background_task(monitor_events, current_user.id). The
\* anonymous user has no id, so the request fails before a task exists.
Monitor ==
    \E user \in Requesters :
        /\ Len(monitors) < MaxMonitors
        /\ IF user = Anonymous
           THEN UNCHANGED monitors
           ELSE monitors' = Append(monitors,
                    [uid |-> user, start |-> Unsubscribed, pos |-> Unsubscribed,
                     out |-> <<>>, alive |-> TRUE])
        /\ UNCHANGED <<registry, rcon, pool, events, sessions, closed>>

\* monitor_events reaches the for statement: the stream yields what the
\* runtime emits from now on.
MonitorSubscribe ==
    \E t \in 1..Len(monitors) :
        /\ monitors[t].alive
        /\ monitors[t].start = Unsubscribed
        /\ monitors' = [monitors EXCEPT ![t].start = Len(events), ![t].pos = Len(events)]
        /\ UNCHANGED <<registry, rcon, pool, events, sessions, closed>>

\* One iteration of the loop of monitor_events.
MonitorStep ==
    \E t \in 1..Len(monitors) :
        /\ monitors[t].alive
        /\ monitors[t].start # Unsubscribed
        /\ monitors[t].pos < Len(events)
        /\ monitors' = [monitors EXCEPT
                ![t].pos = @ + 1,
                ![t].out = @ \o OnEvent(events[monitors[t].pos + 1], monitors[t].uid)]
        /\ UNCHANGED <<registry, rcon, pool, events, sessions, closed>>

\* The runtime ends the stream of a task (the daemon goes away): the for
\* statement is exhausted and monitor_events returns.
StreamEnd ==
    \E t \in 1..Len(monitors) :
        /\ monitors[t].alive
        /\ monitors[t].start # Unsubscribed
        /\ monitors' = [monitors EXCEPT ![t].alive = FALSE]
        /\ UNCHANGED <<registry, rcon, pool, events, sessions, closed>>

\* The runtime emits an event.
RuntimeEvent ==
    \E event \in EventSet :
        /\ Len(events) < MaxEvents
        /\ events' = Append(events, event)
        /\ UNCHANGED <<registry, rcon, pool, monitors, sessions, closed>>

\* A running database and runtime: tenant 1 owns "foo", tenant 2 owns "bar",
\* nobody has "baz".
SeedContainers ==
    {[subdomain |-> "foo", user_id |-> 1], [subdomain |-> "bar", user_id |-> 2]}

InitSeeded ==
    /\ Containers = SeedContainers
    /\ container_limit = [u \in Users |-> MaxLimit]
    /\ rt = [s \in Subdomains |-> IF Exists(s) THEN "running" ELSE "absent"]
    /\ pending = {}
    /\ gate = NoGate
    /\ home_gate = NoHomeGate
    /\ reply = NoReply
    /\ InitRest

\* The event stream and the tasks that read it, while the stream lasts.
NextStream ==
    \/ Monitor
    \/ MonitorSubscribe
    \/ MonitorStep
    \/ RuntimeEvent

SpecStream == InitSeeded /\ [][NextStream]_vars

\* The tasks and the connections they are started for.
NextBridge ==
    \/ Connect
    \/ Disconnect
    \/ Monitor
    \/ MonitorSubscribe
    \/ MonitorStep
    \/ StreamEnd
    \/ RuntimeEvent

SpecBridge == InitSeeded /\ [][NextBridge]_vars

\* The background tasks are scheduled; the runtime and the clients owe
\* nothing.
FairSpecBridge ==
    SpecBridge /\ WF_vars(MonitorSubscribe) /\ WF_vars(MonitorStep)

\* ------------------------------------------------------- the RCON executor

\* The command texts of the command form.
Commands == {"list ", "say hi"}

\* Mutant of QueueOf: one queue shared by all the calls.
QueueShared(c) == 1

\* queue = Queue(): the queue of call c is made for it and used by nobody
\* else.
QueueOf(c) == c

\* What rcon.command puts on its queue for a command sent to an instance;
\* `by` is the call whose child wrote it.
Response(c) ==
    [by |-> c, command |-> rcon_calls[c].command, subdomain |-> rcon_calls[c].subdomain]

\* command up to p.start() in send_rcon_command: the gate, the form, the
\* address and port of the instance, a new queue and a new process. Without
\* a unit there is no address and the request fails before the process.
Command ==
    \E user \in Requesters, subdomain \in Subdomains, valid \in BOOLEAN, text \in Commands :
        /\ Len(rcon_calls) < MaxCalls
        /\ gate' = GateRecord("command", user, subdomain)
        /\ IF Invoked("command", user, subdomain) /\ valid /\ get_container(subdomain)
           THEN /\ rcon_calls' = Append(rcon_calls,
                        [subdomain |-> subdomain, command |-> text, pc |-> "join",
                         child |-> "running", large |-> FALSE, response |-> <<>>])
                /\ rqueue' = Append(rqueue, <<>>)
                /\ UNCHANGED reply
           ELSE /\ UNCHANGED rcon
                /\ reply' = IF ~Invoked("command", user, subdomain)
                            THEN GateReply("command", user, subdomain)
                            ELSE IF ~valid
                            THEN Reply("command", 200, [status |-> "nope"])
                            ELSE Raised("command", "AttributeError")
        /\ UNCHANGED <<Containers, container_limit, rt, pending, home_gate, bridge, pool>>

\* rcon.command in the child: the instance answers and the child puts the
\* response on the queue it was given. A response is large when it does not
\* fit the buffer of the queue's pipe.
ChildPut ==
    \E c \in 1..Len(rcon_calls), large \in BOOLEAN :
        /\ rcon_calls[c].child = "running"
        /\ rqueue' = [rqueue EXCEPT ![QueueOf(c)] = Append(@, Response(c))]
        /\ rcon_calls' = [rcon_calls EXCEPT ![c].child = "put", ![c].large = large]
        /\ UNCHANGED <<registry, bridge, pool>>

\* Whether the queue's feeder thread in the child of call c has written all
\* of the response to the pipe: at once when it fits the buffer, otherwise
\* only when the response has been taken from the queue.
Flushed(c) ==
    \/ ~rcon_calls[c].large
    \/ \A k \in 1..Len(rqueue[QueueOf(c)]) : rqueue[QueueOf(c)][k].by # c

\* The child process ends: after its put, once the feeder thread of the
\* queue has flushed, or before any put when the connection to the instance
\* fails.
ChildExit ==
    \E c \in 1..Len(rcon_calls) :
        /\ rcon_calls[c].child \in {"running", "put"}
        /\ rcon_calls[c].child = "put" => Flushed(c)
        /\ rcon_calls' = [rcon_calls EXCEPT ![c].child =
                IF rcon_calls[c].child = "put" THEN "exited" ELSE "failed"]
        /\ UNCHANGED <<registry, bridge, pool, rqueue>>

ChildTerminated(c) == rcon_calls[c].child \in {"exited", "failed"}

\* p.join() returns once the child has ended.
Join ==
    \E c \in 1..Len(rcon_calls) :
        /\ rcon_calls[c].pc = "join"
        /\ ChildTerminated(c)
        /\ rcon_calls' = [rcon_calls EXCEPT ![c].pc = "get"]
        /\ UNCHANGED <<registry, bridge, pool, rqueue>>

\* response = queue.get() blocks until the queue holds a value; then the
\* call returns it and command answers jsonify({"response": res}).
Get ==
    \E c \in 1..Len(rcon_calls) :
        /\ rcon_calls[c].pc = "get"
        /\ rqueue[QueueOf(c)] # <<>>
        /\ rcon_calls' = [rcon_calls EXCEPT ![c].pc = "done",
                                            ![c].response = <<Head(rqueue[QueueOf(c)])>>]
        /\ rqueue' = [rqueue EXCEPT ![QueueOf(c)] = Tail(@)]
        /\ reply' = Reply("command", 200, [response |-> Head(rqueue[QueueOf(c)])])
        /\ UNCHANGED <<Containers, container_limit, rt, pending, gate, home_gate, bridge, pool>>

NextRcon ==
    \/ Command
    \/ ChildPut
    \/ ChildExit
    \/ Join
    \/ Get

SpecRcon == InitSeeded /\ [][NextRcon]_vars

\* ------------------------------------------------- the async task pipeline

\* Fields of ServerPropertiesForm, and the values a submitted form carries.
FormFields == {"max_players"}
Forms == [FormFields -> Values]

\* key.replace("-", "_")
FieldName ==
    [k \in Keys |-> IF k = "max-players" THEN "max_players" ELSE "x_unknown"]

\* Mutant of merge_update: the document is built from the form's fields.
merge_update_form_only(document, form) ==
    [k \in {key \in DOMAIN document : FieldName[key] \in DOMAIN form} |-> form[FieldName[k]]]

\* The loop of edit over props.items(): a key whose field the form has takes
\* the field's data, any other key raises in getattr and is passed over.
merge_update(document, form) ==
    [k \in DOMAIN document |->
        IF FieldName[k] \in DOMAIN form THEN form[FieldName[k]] ELSE document[k]]

\* Mutant of submit: the caller runs the task itself before it goes on.
submit_and_wait(subdomain) ==
    /\ tasks' = Append(tasks, [subdomain |-> subdomain, runs |-> 1, result |-> "restarted"])
    /\ UNCHANGED work_queue

\* executor.submit(async_restart, subdomain): a new work item at the end of
\* the queue.
submit(subdomain) ==
    /\ tasks' = Append(tasks, [subdomain |-> subdomain, runs |-> 0, result |-> "none"])
    /\ work_queue' = Append(work_queue, Len(tasks) + 1)

\* restart: submits the task on a GET and answers at once. The method
\* matters only to a request the gate lets through.
Restart ==
    \E user \in Requesters, subdomain \in Subdomains :
        /\ Len(tasks) + Len(editing) < MaxTasks
        /\ gate' = GateRecord("restart", user, subdomain)
        /\ IF ~Invoked("restart", user, subdomain)
           THEN /\ reply' = GateReply("restart", user, subdomain)
                /\ UNCHANGED <<tasks, work_queue>>
           ELSE \E method \in Methods :
                IF method = "GET"
                THEN /\ submit(subdomain)
                     /\ reply' = Handled("restart", 200, Restarting, subdomain)
                ELSE /\ UNCHANGED <<tasks, work_queue>>
                     /\ reply' = Unauthorized("restart")
        /\ UNCHANGED <<Containers, container_limit, rt, pending, home_gate, bridge, rcon,
                       workers, props, editing, task_log>>

\* Mutant of Edit: the restart is submitted where the document is written,
\* and the document is left for later.
EditSubmitsFirst ==
    \E user \in Requesters, subdomain \in Subdomains :
        /\ Len(tasks) + Len(editing) < MaxTasks
        /\ Len(editing) < MaxEditing
        /\ gate' = GateRecord("edit", user, subdomain)
        /\ IF ~Invoked("edit", user, subdomain)
           THEN /\ reply' = GateReply("edit", user, subdomain)
                /\ UNCHANGED <<tasks, work_queue, props, editing>>
           ELSE \E method \in Methods, valid \in BOOLEAN :
                IF method = "POST" /\ valid
                THEN /\ submit(subdomain)
                     /\ editing' = Append(editing,
                             [subdomain |-> subdomain, method |-> method, valid |-> valid])
                     /\ UNCHANGED <<props, reply>>
                ELSE /\ UNCHANGED <<tasks, work_queue, props, editing>>
                     /\ reply' = Reply("edit", 200, Text("edit.html"))
        /\ UNCHANGED <<Containers, container_limit, rt, pending, home_gate, bridge, rcon,
                       workers, task_log>>

\* edit up to executor.submit: reads the document; when the form validates
\* (a POST with valid fields) merges the form into it and writes it back,
\* and the request stands before executor.submit. A GET fills the form from
\* the document, and a GET or a form that does not validate goes straight to
\* the page. The method and the form matter only to a request the gate lets
\* through.
Edit ==
    \E user \in Requesters, subdomain \in Subdomains :
        /\ Len(tasks) + Len(editing) < MaxTasks
        /\ Len(editing) < MaxEditing
        /\ gate' = GateRecord("edit", user, subdomain)
        /\ IF ~Invoked("edit", user, subdomain)
           THEN /\ reply' = GateReply("edit", user, subdomain)
                /\ UNCHANGED <<props, editing>>
           ELSE \E method \in Methods, valid \in BOOLEAN :
                IF method = "POST" /\ valid
                THEN \E form \in Forms :
                        /\ props' = [props EXCEPT ![subdomain] = merge_update(@, form)]
                        /\ editing' = Append(editing,
                                [subdomain |-> subdomain, method |-> method, valid |-> valid])
                        /\ UNCHANGED reply
                ELSE /\ UNCHANGED <<props, editing>>
                     /\ reply' = Reply("edit", 200, Text("edit.html"))
        /\ UNCHANGED <<Containers, container_limit, rt, pending, home_gate, bridge, rcon,
                       tasks, work_queue, workers, task_log>>

\* A sequence without its i-th element.
Remove(seq, i) == SubSeq(seq, 1, i - 1) \o SubSeq(seq, i + 1, Len(seq))

\* edit from executor.submit(async_restart, subdomain) to the page.
EditSubmit ==
    \E i \in 1..Len(editing) :
        /\ submit(editing[i].subdomain)
        /\ editing' = Remove(editing, i)
        /\ reply' = Reply("edit", 200, Text("edit.html"))
        /\ UNCHANGED <<Containers, container_limit, rt, pending, gate, home_gate, bridge, rcon,
                       workers, props, task_log>>

\* Mutant of Dequeue: the work item stays on the queue.
DequeueKeep(queue) == queue

\* The oldest work item leaves the queue.
Dequeue(queue) == Tail(queue)

\* Mutant of WorkerTake: a worker takes work while it still runs a task.
WorkerTakeBusy ==
    \E w \in 1..max_workers :
        /\ work_queue # <<>>
        /\ workers' = [workers EXCEPT ![w] = Head(work_queue)]
        /\ work_queue' = Dequeue(work_queue)
        /\ UNCHANGED <<registry, bridge, rcon, tasks, props, editing, task_log>>

\* A worker thread that has nothing to run blocks on work_queue.get() and
\* takes the oldest item; the executor never has more than max_workers
\* threads.
WorkerTake ==
    \E w \in 1..max_workers :
        /\ workers[w] = Idle
        /\ work_queue # <<>>
        /\ workers' = [workers EXCEPT ![w] = Head(work_queue)]
        /\ work_queue' = Dequeue(work_queue)
        /\ UNCHANGED <<registry, bridge, rcon, tasks, props, editing, task_log>>

\* logger.debug(f"Container {subdomain} restarted."), the one call of the
\* logger in async_restart.
Restarted(subdomain) ==
    [level |-> "DEBUG", msg |-> "restarted", subdomain |-> subdomain]

\* The worker runs async_restart(subdomain): get_container, then restart()
\* on what it returned, then the debug record. Without a unit that is
\* False.restart(), which raises before the logger is reached; the executor
\* keeps the exception in the future, which nobody reads, and the thread
\* goes on.
WorkerRun ==
    \E w \in 1..max_workers :
        /\ workers[w] # Idle
        /\ LET t == workers[w]
               subdomain == tasks[t].subdomain
           IN IF get_container(subdomain)
              THEN /\ rt' = [rt EXCEPT ![subdomain] = "running"]
                   /\ tasks' = [tasks EXCEPT ![t].runs = @ + 1, ![t].result = "restarted"]
                   /\ task_log' = task_log (+) SetToBag({Restarted(subdomain)})
              ELSE /\ UNCHANGED <<rt, task_log>>
                   /\ tasks' = [tasks EXCEPT ![t].runs = @ + 1, ![t].result = "raised"]
        /\ workers' = [workers EXCEPT ![w] = Idle]
        /\ UNCHANGED <<Containers, container_limit, pending, gate, reply, home_gate, bridge, rcon,
                       work_queue, props, editing>>

\* A running database in which the unit of "bar" is gone from the runtime
\* while its row is still there.
InitPool ==
    /\ Containers = SeedContainers
    /\ container_limit = [u \in Users |-> MaxLimit]
    /\ rt = [s \in Subdomains |-> IF s = "foo" THEN "exited" ELSE "absent"]
    /\ pending = {}
    /\ gate = NoGate
    /\ home_gate = NoHomeGate
    /\ reply = NoReply
    /\ InitRest

NextPool ==
    \/ Restart
    \/ Edit
    \/ EditSubmit
    \/ WorkerTake
    \/ WorkerRun

SpecPool == InitPool /\ [][NextPool]_vars

\* The worker threads are scheduled: a free worker takes waiting work, and
\* a call of async_restart comes to its end.
FairSpecPool == SpecPool /\ WF_vars(WorkerTake) /\ WF_vars(WorkerRun)

\* ------------------------------------------------------- the whole program

\* Every request handler, worker, child process and background task, and
\* what the runtime and the clients do around them.
Next ==
    \/ Home
    \/ HomeCreate
    \/ Server
    \/ Download
    \/ GetStatus
    \/ Start
    \/ Shutdown
    \/ Delete
    \/ Restart
    \/ Edit
    \/ EditSubmit
    \/ Command
    \/ ChildPut
    \/ ChildExit
    \/ Join
    \/ Get
    \/ WorkerTake
    \/ WorkerRun
    \/ Connect
    \/ Disconnect
    \/ Monitor
    \/ MonitorSubscribe
    \/ MonitorStep
    \/ StreamEnd
    \/ RuntimeEvent
    \/ RuntimeDie

Spec == Init /\ [][Next]_vars

\* ------------------------------------------------------------------ claims

Denial ==
    GateResult("redirect_home", CannotAccess, <<"is_authenticated", "user_can_access">>)

\* C1: a logged-in tenant who asks a guarded route for a subdomain that is
\* not theirs gets one and the same denial (same flash, same redirect to
\* home, view function not called) whether another tenant owns the subdomain
\* or nobody does; and in every registry the gate answers any two subdomains
\* the tenant does not own alike.
NoExistenceLeakage ==
    /\ (gate.route # "none" /\ gate.authenticated /\ ~gate.owned) => gate.result = Denial
    /\ \A u \in Users : \A s1, s2 \in Subdomains :
         (~user_can_access(u, s1) /\ ~user_can_access(u, s2))
            => authorized(u, s1) = authorized(u, s2)

\* C1 happens: a logged-in tenant was denied the deletion of another
\* tenant's subdomain while some other subdomain does not exist at all.
DeniedForeignSubdomain ==
    /\ gate.route = "delete"
    /\ gate.authenticated /\ ~gate.owned /\ gate.exists
    /\ gate.result.outcome = "redirect_home"
    /\ \E s \in Subdomains : ~Exists(s)

UnauthenticatedRejected ==
    (gate.route # "none" /\ ~gate.authenticated)
        => /\ gate.result.outcome = "redirect_login"
           /\ gate.result.calls = <<"is_authenticated">>

UnauthenticatedStep ==
    (gate' # gate /\ ~gate'.authenticated)
        => UNCHANGED <<Containers, rt, pending, rcon, pool>>

\* C2: a guarded request of a requester who is not logged in is redirected
\* to login after the login check alone: user_can_access is not evaluated,
\* the view function is not called, and the step changes neither the
\* registry nor the runtime, starts no RCON call, writes no configuration
\* and submits no task.
UnauthenticatedShortCircuit ==
    []UnauthenticatedRejected /\ [][UnauthenticatedStep]_vars

\* C2 happens: an anonymous requester asked to delete a subdomain that
\* exists, and it still exists with its unit running.
AnonymousDeleteRejected ==
    /\ gate.route = "delete"
    /\ ~gate.authenticated /\ gate.exists
    /\ \E c \in Containers : rt[c.subdomain] = "running"

QuotaDecision ==
    home_gate.outcome \in {"limit_reached", "create_container"}
        => /\ home_gate.count = home_gate.limit => home_gate.outcome = "limit_reached"
           /\ home_gate.count = home_gate.limit - 1 => home_gate.outcome = "create_container"

QuotaStep ==
    home_gate' # home_gate
        => /\ home_gate'.outcome = "limit_reached" => UNCHANGED <<pending, Containers, rt>>
           /\ home_gate'.outcome = "create_container"
                => \E p \in pending' : p.user = home_gate'.user

\* C3: a create form submitted through home by a tenant with limit N who
\* owns exactly N instances is refused and no call of create_container is
\* started; submitted by a tenant who owns N-1 it passes the gate and the
\* request stands at the call of deploy.create_container.
QuotaGateOnCreate ==
    []QuotaDecision /\ [][QuotaStep]_vars

\* C3 happens: a tenant with limit 2 who owns 2 instances was refused.
RefusedAtLimit ==
    /\ home_gate.outcome = "limit_reached"
    /\ home_gate.count = home_gate.limit
    /\ home_gate.count > 1

IsLifecycle(e) ==
    e.Type = "container" /\ e.Action \in {"start", "stop", "die", "restart"}

\* What task t has read of the stream, and the lifecycle events among it.
Window(t) == SubSeq(events, monitors[t].start + 1, monitors[t].pos)
Relevant(t) == SelectSeq(Window(t), IsLifecycle)

Subscribed == {t \in 1..Len(monitors) : monitors[t].start # Unsubscribed}

\* The messages of task t paired with the lifecycle events it read, as far
\* as both go.
Paired(t) ==
    {k \in 1..Len(monitors[t].out) : k <= Len(Relevant(t))}

TeardownAfterClose ==
    \A u \in Users :
        [](u \in closed
            => <>(\A t \in 1..Len(monitors) : monitors[t].uid = u => ~monitors[t].alive))

\* The live tasks that publish to the room of user u.
LiveTasks(u) == {t \in 1..Len(monitors) : monitors[t].uid = u /\ monitors[t].alive}

\* C8: the live tasks publishing to a user's room are never more than the
\* sessions that user has connected.
OneTaskPerSession ==
    \A u \in Users : Cardinality(LiveTasks(u)) <= sessions[u]

\* C9: what a task has published to its user's room is, message for
\* message and in the runtime's order, the container events with an action
\* among start, stop, die and restart that it has read: nothing for any
\* other event, nothing twice, nothing left out.
FilteredInOrder ==
    \A t \in Subscribed :
        LET r == Relevant(t)
            out == monitors[t].out
        IN /\ Len(out) = Len(r)
           /\ \A k \in 1..Len(out) :
                /\ out[k].event = "container_status"
                /\ out[k].room = monitors[t].uid
                /\ out[k].data.status = r[k].Action

\* C9 happens: a task read an event it does not publish and then
\* "restart", and published one message.
PublishedOneOfTwo ==
    \E t \in Subscribed :
        /\ Len(Window(t)) = 2
        /\ ~IsLifecycle(Window(t)[1])
        /\ Window(t)[2].Action = "restart"
        /\ Len(monitors[t].out) = 1

\* C5: whenever the child of a call has terminated and the call has not
\* returned, the call goes on: join returns, or the queue holds the value get
\* waits for. (A call for which neither holds waits forever.)
NeverHangsOnDeadChild ==
    \A c \in 1..Len(rcon_calls) :
        (ChildTerminated(c) /\ rcon_calls[c].pc # "done")
            => \/ rcon_calls[c].pc = "join"
               \/ rcon_calls[c].pc = "get" /\ rqueue[QueueOf(c)] # <<>>

\* C6: every call has a child and a queue of its own; a queue holds at most
\* the one response of the call's own child, and a call that has returned
\* returned exactly that response, for its own command and instance.
ProcessPerCallIsolation ==
    /\ Len(rqueue) = Len(rcon_calls)
    /\ \A c \in 1..Len(rcon_calls) :
        /\ Len(rqueue[c]) <= 1
        /\ \A k \in 1..Len(rqueue[c]) : rqueue[c][k].by = c
        /\ rcon_calls[c].pc = "done"
             => /\ rcon_calls[c].response = <<Response(c)>>
                /\ rqueue[c] = <<>>
        /\ rcon_calls[c].pc # "done" => rcon_calls[c].response = <<>>

\* C6 happens: two calls for different instances ran side by side (the
\* second child wrote before the first call read) and both have returned.
TwoCallsReturned ==
    /\ Len(rcon_calls) = 2
    /\ rcon_calls[1].subdomain # rcon_calls[2].subdomain
    /\ rcon_calls[1].command # rcon_calls[2].command
    /\ rcon_calls[1].pc = "done" /\ rcon_calls[2].pc = "done"

\* C10: every task submitted to the executor, from restart or from edit, is
\* run at most once, whether it ends or raises, and under fair scheduling of
\* the workers every submitted task is run.
ExecutedOnceEventually ==
    /\ [](\A t \in 1..Len(tasks) : tasks[t].runs <= 1)
    /\ \A t \in 1..MaxTasks : (Len(tasks) >= t) ~> (Len(tasks) >= t /\ tasks[t].runs = 1)

\* C10 happens: three tasks were submitted, one of them by edit (the
\* document of its instance changed) and one for an instance without a
\* unit; all have been run once, and that one raised.
AllRunOneRaised ==
    /\ Len(tasks) = 3
    /\ \A t \in 1..3 : tasks[t].runs = 1
    /\ \E t \in 1..3 : tasks[t].result = "raised"
    /\ \E t \in 1..3 : tasks[t].result = "restarted"
    /\ \E s \in Subdomains : props[s] # DefaultProps

\* The tasks a worker has taken off the queue and not yet brought to an end.
Executing ==
    {t \in 1..Len(tasks) :
        /\ tasks[t].runs = 0
        /\ \A k \in 1..Len(work_queue) : work_queue[k] # t}

Waiting == {work_queue[k] : k \in 1..Len(work_queue)}

AtMostTwoExecuting == Cardinality(Executing) <= 2

\* A task begins to execute only from the queue and only when fewer than two
\* were executing; a task submitted while two execute is put on the queue.
StartsWhenWorkerFree ==
    /\ \A t \in 1..Len(tasks') :
         (t \in Executing' /\ t \notin Executing)
            => (t \in Waiting /\ Cardinality(Executing) < 2)
    /\ (Len(tasks') > Len(tasks) /\ Cardinality(Executing) = 2)
         => Len(tasks') \in Waiting'

\* C11: never more than two async_restart tasks execute at the same time; a
\* task submitted while both workers are busy waits on the queue and begins
\* only in a step before which fewer than two were executing.
BoundedRestartConcurrency ==
    []AtMostTwoExecuting /\ [][StartsWhenWorkerFree]_vars

\* C11 happens: both workers execute a task and a third task, submitted
\* meanwhile, waits on the queue.
BothBusyOneQueued ==
    /\ \A w \in 1..max_workers : workers[w] # Idle
    /\ Cardinality(Executing) = 2
    /\ Len(work_queue) >= 1

\* The records of the log about an instance that are not the debug record
\* of a restart that went through.
FailureRecords(subdomain) ==
    {r \in BagToSet(task_log) : r.subdomain = subdomain /\ r.msg # "restarted"}

\* C12: a task that failed inside a worker has a record of its failure in
\* the log, and the worker that ran it is free for later tasks.
FailureContained ==
    \A t \in 1..Len(tasks) :
        tasks[t].result = "raised"
            => /\ FailureRecords(tasks[t].subdomain) # {}
               /\ \A w \in 1..max_workers : workers[w] # t

\* A step of restart that submits a task.
RestartSubmits == Len(tasks') > Len(tasks) /\ reply'.route = "restart"

\* The step that submits is the step that answers: the answer is the
\* "restarting" tuple, the new task waits on the queue without having run,
\* and no worker and no unit has moved.
AnsweredAtSubmission ==
    RestartSubmits
        => /\ reply'.code = 200 /\ reply'.body = Restarting
           /\ Len(tasks') = Len(tasks) + 1
           /\ tasks'[Len(tasks')].runs = 0
           /\ Len(tasks') \in Waiting'
           /\ UNCHANGED <<workers, rt, task_log>>
           /\ \A t \in 1..Len(tasks) : tasks'[t] = tasks[t]

\* C13: an authorized GET of restart is answered in the step that submits
\* the task, before the task has begun, whatever the workers and the queue
\* hold at that moment.
RestartDoesNotBlock == [][AnsweredAtSubmission]_vars

\* C13 happens: restart was answered while both workers were busy and an
\* earlier submission was still waiting; its own task waits behind that one.
AnsweredWhileBusy ==
    /\ reply.route = "restart" /\ reply.code = 200 /\ reply.body = Restarting
    /\ \A w \in 1..max_workers : workers[w] # Idle
    /\ Len(work_queue) >= 2
    /\ work_queue[Len(work_queue)] = Len(tasks)

\* The keys of a document that no field of the form matches once "-" is
\* replaced by "_".
Unmatched(document) == {k \in DOMAIN document : FieldName[k] \notin FormFields}

\* What a step of edit does to the document of each instance.
KeysPreserved ==
    \A s \in Subdomains :
        /\ DOMAIN props'[s] = DOMAIN props[s]
        /\ \A k \in Unmatched(props[s]) : props'[s][k] = props[s][k]
        /\ \A k \in DOMAIN props[s] :
             props'[s][k] # props[s][k] => (k = "max-players" /\ props'[s][k] \in Values)

\* C14: the document edit writes back has the key set of the document it
\* read; a key no form field matches keeps its value, and only a key that a
\* field matches after "-" is replaced by "_" is overwritten.
PartialUpdatePreservesKeys == [][KeysPreserved]_vars

\* C14 happens: a validated form was merged into the document of "foo":
\* "max-players" has the form's value and "x-unknown" the value it had.
MergedKeptUnknown ==
    /\ props["foo"]["max-players"] = "10"
    /\ props["foo"]["x-unknown"] = DefaultProps["x-unknown"]
    /\ DOMAIN props["foo"] = Keys

\* A step in which edit submits a restart: the request has written its
\* document in an earlier step and leaves with one new task for its instance.
SubmitAfterWrite ==
    (Len(tasks') > Len(tasks) /\ reply'.route = "edit")
        => /\ props' = props
           /\ Len(tasks') = Len(tasks) + 1
           /\ \E i \in 1..Len(editing) :
                /\ editing' = Remove(editing, i)
                /\ tasks'[Len(tasks')].subdomain = editing[i].subdomain

\* A step in which a request of edit passes write_server_properties: it is
\* a validated POST, and it has submitted nothing yet.
WriteBeforeSubmit ==
    Len(editing') > Len(editing)
        => /\ editing'[Len(editing')].method = "POST"
           /\ editing'[Len(editing')].valid
           /\ gate'.route = "edit" /\ gate'.result.outcome = "handler"
           /\ UNCHANGED <<tasks, work_queue>>

\* Any other step writes no document, and a request leaves edit's second
\* half with exactly one submission.
NoWriteOtherwise ==
    /\ props' # props => Len(editing') > Len(editing)
    /\ Len(editing') < Len(editing)
         => (Len(editing') = Len(editing) - 1 /\ Len(tasks') = Len(tasks) + 1)

\* C19: edit submits a restart only after it has written the updated
\* document, once per validated form; a GET or a form that does not
\* validate writes nothing and submits nothing.
ConfigThenRestart ==
    [][SubmitAfterWrite /\ WriteBeforeSubmit /\ NoWriteOtherwise]_vars

\* C19 happens: one validated form for "foo" has been through edit: the
\* document is changed, no request is left between write and submit, and
\* the one task there is is the restart of "foo".
EditedThenRestarted ==
    /\ props["foo"] # DefaultProps
    /\ editing = <<>>
    /\ Len(tasks) = 1
    /\ tasks[1].subdomain = "foo"
    /\ reply = Reply("edit", 200, Text("edit.html"))

\* The states of a unit that get_status has a tuple for.
Reported == {"running", "exited", "restarting"}

\* C15: an authorized GET of get_status is answered 200; with the unknown
\* tuple (unknown, Unknown, gray) when the runtime has no unit for the
\* subdomain or reports a state other than running, exited and restarting,
\* and otherwise with the tuple whose status is the state reported:
\* running green, exited red, restarting orange.
StatusOrUnknown ==
    (reply.route = "get_status" /\ reply.code # 302 /\ reply.code # 401)
        => /\ reply.code = 200
           /\ reply.unit \notin Reported
                => reply.body = [status |-> "unknown", show |-> "Unknown",
                                 color |-> "bg-gray-500"]
           /\ reply.unit \in Reported
                => /\ reply.body.status = reply.unit
                   /\ reply.body.color =
                        (CASE reply.unit = "running" -> "bg-green-500"
                           [] reply.unit = "exited" -> "bg-red-500"
                           [] reply.unit = "restarting" -> "bg-orange-500")

\* C15 happens: the poll of a unit in a state the table does not hold was
\* answered with the unknown tuple while another unit is restarting.
PolledUnlistedState ==
    /\ reply.route = "get_status" /\ reply.code = 200
    /\ reply.unit = "created"
    /\ reply.body.status = "unknown"
    /\ \E s \in Subdomains : rt[s] = "restarting"

\* C16: an authorized start, shutdown or restart for a subdomain whose unit
\* the runtime does not have is answered with an InstanceNotFound failure
\* (and the restart task, if one is run for it, ends with that failure).
NotFoundReported ==
    /\ (/\ reply.route \in {"start", "shutdown", "restart"}
        /\ reply.code # 302 /\ reply.code # 401
        /\ reply.unit = "absent")
          => reply.body = Text("InstanceNotFound")
    /\ \A t \in 1..Len(tasks) :
         tasks[t].runs = 1 => tasks[t].result \in {"restarted", "InstanceNotFound"}

\* C17: whatever the interleaving of the create requests a tenant sends
\* through home, the tenant never owns more instances than its
\* container_limit.
QuotaUnderConcurrentCreates ==
    \A u \in Users : Cardinality(containers_of(u)) <= container_limit[u]

\* C18: send_rcon_command takes the response from the queue before it
\* waits for the child to end: whenever the child of a call cannot end
\* before its response has been taken, the call stands at queue.get() and
\* not at p.join().
ResponseBeforeJoin ==
    \A c \in 1..Len(rcon_calls) :
        (rcon_calls[c].child = "put" /\ ~Flushed(c)) => rcon_calls[c].pc = "get"

=============================================================================
